---- MODULE Spec2Model ----
(***************************************************************************)
(* Request authentication and transport resilience of the storefront SDK.  *)
(*                                                                         *)
(* Two clients are modelled:                                               *)
(*   - UniversalHttpClient + SecurityManager (used by SecureStorefrontSDK) *)
(*     under SpecU;                                                        *)
(*   - the legacy HttpClient (used by StorefrontSDK / the services) under  *)
(*     SpecL.                                                              *)
(*                                                                         *)
(* Representation choices:                                                 *)
(*   - a URL is a record of origin, path segments and query parameters;    *)
(*   - an error message is a sequence of words, and String.includes is     *)
(*     membership of a word in that sequence;                              *)
(*   - SHA-256 and HMAC-SHA256 are injective constructors <<"sha256", b>>  *)
(*     and <<"hmac", key, payload>>;                                       *)
(*   - the decimal string of a whole number of seconds is the number.      *)
(***************************************************************************)
EXTENDS Integers, Sequences, FiniteSets, TLC

VARIABLES
  runtime,      \* ambient globals of the process (what Environment probes)
  config,       \* UniversalHttpClient.config / SecurityManager key material
  authToken,    \* SecurityManager.config.authToken
  cartToken,    \* SecurityManager.config.cartToken
  lastSetAuth,  \* history: argument of the most recent setAuthToken call
  lastSetCart,  \* history: argument of the most recent setCartToken call
  now,          \* Date.now() in whole seconds
  pc,           \* position of the UniversalHttpClient.request call
  call,         \* the SDK operation that issued the request
  req,          \* the HttpRequest after buildUrl
  headers,      \* merged headers of the request under way
  signed,       \* what getAuthHeaders was asked to sign: path and body
  attempt,      \* loop variable of the retry loop
  attempts,     \* history: number of makeRequest calls of this request
  wire,         \* history: body of the last attempt as put on the wire
  carried,      \* history: headers of the last attempt as put on the wire
  lastWait,     \* history: the last delay waited, in ms
  waited,       \* history: number of delays waited
  outcome,      \* the response returned or the error raised
  legacy,       \* the legacy HttpClient and its request under way
  probe,        \* a function applied on its own: its arguments and result
  registry      \* SecureStorefrontSDK.instances, the instances and their users

uvars == <<runtime, config, authToken, cartToken, lastSetAuth, lastSetCart, now,
           pc, call, req, headers, signed, attempt, attempts, wire, carried,
           lastWait, waited, outcome>>
vars == <<uvars, legacy, probe, registry>>

---------------------------------------------------------------------------
(* Bounds of the model *)

\* largest configured maxRetries explored
MaxRetriesBound == 2

\* the clock is read up to this second
MaxClock == 1

\* calls of createInstance in one process
MaxHandles == 3

(* Program constants *)

DefaultMaxRetries == 2
DefaultRetryDelay == 500
MaxRetryAfterMs == 60000

Absent == "<absent>"

\* no function is being applied on its own
NoProbe == [op |-> "none"]

\* no instance has been created
NoRegistry == [instances |-> <<>>, objects |-> <<>>, handles |-> <<>>]

---------------------------------------------------------------------------
(* Environment *)

Globals(proc, win, worker, fetch, abort, nodeCrypto, cryptoJs, lib) ==
  [proc |-> proc, win |-> win, worker |-> worker, fetch |-> fetch,
   abort |-> abort, nodeCrypto |-> nodeCrypto, cryptoJs |-> cryptoJs, lib |-> lib]

\* The runtimes explored: Node with fetch, Node without fetch (axios, a fetch
\* module without a default export, nothing installed), browser with and
\* without crypto-js, web worker, an edge runtime without process or require,
\* an Electron-like renderer (process and window), and a bare context.
Runtimes ==
  { Globals(TRUE,  FALSE, FALSE, TRUE,  TRUE,  TRUE,  FALSE, "none"),
    Globals(TRUE,  FALSE, FALSE, FALSE, TRUE,  TRUE,  FALSE, "axios"),
    Globals(TRUE,  FALSE, FALSE, FALSE, TRUE,  TRUE,  FALSE, "plain"),
    Globals(TRUE,  FALSE, FALSE, FALSE, FALSE, TRUE,  FALSE, "none"),
    Globals(FALSE, TRUE,  FALSE, TRUE,  TRUE,  FALSE, TRUE,  "none"),
    Globals(FALSE, TRUE,  FALSE, TRUE,  TRUE,  FALSE, FALSE, "none"),
    Globals(FALSE, FALSE, TRUE,  TRUE,  TRUE,  FALSE, FALSE, "none"),
    Globals(FALSE, FALSE, FALSE, TRUE,  TRUE,  FALSE, FALSE, "none"),
    Globals(TRUE,  TRUE,  FALSE, TRUE,  TRUE,  TRUE,  TRUE,  "none"),
    Globals(FALSE, FALSE, FALSE, FALSE, FALSE, FALSE, FALSE, "none") }

detect(g) ==
  LET isNode == g.proc
      isBrowser == g.win
      isWebWorker == g.worker
      isServer == ~isBrowser /\ ~isWebWorker
  IN [isServer |-> isServer, isBrowser |-> isBrowser,
      isWebWorker |-> isWebWorker, isNode |-> isNode,
      platform |-> IF isNode THEN "node"
                   ELSE IF isBrowser THEN "browser"
                   ELSE IF isWebWorker THEN "webworker" ELSE "unknown"]

\* What detect probes: process is "undefined", "noVersions" (no versions
\* field), "noNode" (versions without node) or "node"; window is "undefined",
\* "noDocument" or "document"; importScripts is a function or not; navigator
\* is defined or not.
Ambients ==
  [process : {"undefined", "noVersions", "noNode", "node"},
   window : {"undefined", "noDocument", "document"},
   importScripts : BOOLEAN, navigator : BOOLEAN]

\* the three tests of detect on the ambient globals
probeGlobals(a) ==
  Globals(a.process = "node", a.window = "document",
          a.importScripts /\ a.navigator, FALSE, FALSE, FALSE, FALSE, "none")

info == detect(runtime)

hasFetch == runtime.fetch

\* Environment.getCrypto as generateSignatureSync uses it: the Node crypto
\* module, or null.
getCrypto ==
  IF info.isServer /\ runtime.nodeCrypto THEN "crypto" ELSE "null"

---------------------------------------------------------------------------
(* Values *)

\* Header maps are functions from header names to values; b overrides a.
Merge(a, b) ==
  [k \in DOMAIN a \cup DOMAIN b |-> IF k \in DOMAIN b THEN b[k] ELSE a[k]]

NoHeaders == [k \in {} |-> ""]

\* String.includes on a message: the message holds the word.
Includes(message, word) == \E i \in DOMAIN message : message[i] = word

\* JavaScript values passed as request data: undefined, 0, {}, {a: 1} and
\* {a: undefined}.
DataValues == {"undefined", "zero", "emptyObj", "objA", "objUndef"}

Truthy(d) == d \in {"emptyObj", "objA", "objUndef"}

JSONstringify(d) ==
  CASE d = "objA" -> "{\"a\":1}"
    [] d = "emptyObj" -> "{}"
    [] d = "objUndef" -> "{}"
    [] d = "zero" -> "0"
    [] OTHER -> Absent

JSONparse(s) ==
  CASE s = "{\"a\":1}" -> "objA"
    [] s = "{}" -> "emptyObj"
    [] s = "0" -> "zero"
    [] OTHER -> "undefined"

toUpperCase(m) ==
  CASE m = "get" -> "GET"
    [] m = "post" -> "POST"
    [] m = "delete" -> "DELETE"
    [] OTHER -> m

Url(origin, segs, search) == [origin |-> origin, segs |-> segs, search |-> search]

\* URL.pathname and URL.search of a parsed URL
pathname(url) == [segs |-> url.segs, search |-> <<>>]
pathnameAndSearch(url) == [segs |-> url.segs, search |-> url.search]

---------------------------------------------------------------------------
(* SecurityManager *)

SignatureVersion == "v1"

sha256(data) == <<"sha256", data>>

\* a hard-coded value that is not the digest of the empty string
browserSha256_otherConstant(data) ==
  IF data = "" THEN <<"plain", "">> ELSE sha256(data)

\* SecurityManager.sha256: the hard-coded digest of the empty string is the
\* digest of the empty string.
browserSha256(data) == IF data = "" THEN <<"sha256", "">> ELSE sha256(data)

hmacSha256(data, key) == <<"hmac", key, data>>

Payload(version, timestamp, method, path, bodyHash) ==
  <<version, timestamp, toUpperCase(method), path, bodyHash>>

\* Both return [ok, value]: ok = FALSE when the code throws.
generateSignatureSync(timestamp, method, path, body) ==
  IF ~info.isServer \/ config.secretKey = Absent \/ getCrypto = "null"
  THEN [ok |-> FALSE, value |-> <<>>]
  ELSE [ok |-> TRUE,
        value |-> hmacSha256(Payload(SignatureVersion, timestamp, method, path,
                                     sha256(body)), config.secretKey)]

generateBrowserSignature(timestamp, method, path, body) ==
  IF config.secretKey = Absent \/ ~runtime.cryptoJs
  THEN [ok |-> FALSE, value |-> <<>>]
  ELSE [ok |-> TRUE,
        value |-> hmacSha256(Payload(SignatureVersion, timestamp, method, path,
                                     browserSha256(body)), config.secretKey)]

Bearer(token) == "Bearer " \o token

\* The bearer and cart headers of getAuthHeaders for the given stored tokens
tokenHeaders(auth, cart) ==
  Merge(IF auth # Absent THEN [k \in {"Authorization"} |-> Bearer(auth)]
        ELSE NoHeaders,
        IF cart # Absent THEN [k \in {"X-Cart-Token"} |-> cart] ELSE NoHeaders)

\* The signature headers of getAuthHeaders
signatureHeaders(timestamp, method, path, body) ==
  IF config.secretKey # Absent
  THEN IF info.isServer
       THEN LET s == generateSignatureSync(timestamp, method, path, body)
            IN IF s.ok THEN [k \in {"X-Signature"} |-> s.value]
               ELSE [k \in {"X-Client-Auth"} |-> "true"]
       ELSE IF info.isBrowser
       THEN LET s == generateBrowserSignature(timestamp, method, path, body)
            IN IF s.ok THEN [k \in {"X-Signature"} |-> s.value]
               ELSE [k \in {"X-Client-Auth"} |-> "true"]
       ELSE NoHeaders
  ELSE [k \in {"X-Client-Auth"} |-> "true"]

getAuthHeaders(method, path, body) ==
  LET timestamp == now
      base == [k \in {"X-Public-Key", "X-Timestamp", "X-Signature-Version"} |->
                 CASE k = "X-Public-Key" -> config.publicKey
                   [] k = "X-Timestamp" -> timestamp
                   [] OTHER -> SignatureVersion]
  IN Merge(Merge(base, tokenHeaders(authToken, cartToken)),
           signatureHeaders(timestamp, method, path, body))

\* the token stored as given
storedToken_asGiven(token) == token

\* setAuthToken / setCartToken store token || undefined
storedToken(token) == IF token = "null" \/ token = "" THEN Absent ELSE token

\* SecurityManager.hashString: the digest on a server, the input itself
\* elsewhere
hashString(input) ==
  IF info.isServer THEN sha256(input) ELSE <<"plain", input>>

\* SecurityManager.generateSignature: [ok, value], ok = FALSE when it throws
generateSignature(timestamp, method, path, body) ==
  IF ~info.isServer \/ config.secretKey = Absent \/ getCrypto = "null"
  THEN [ok |-> FALSE, value |-> <<>>]
  ELSE [ok |-> TRUE,
        value |-> hmacSha256(Payload(SignatureVersion, timestamp, method, path,
                                     hashString(body)), config.secretKey)]

DefaultTimestampTolerance == 300

\* config.timestampTolerance || 300; the option given is <<>> when it is
\* left out and <<n>> when it is n
timestampTolerance(given) ==
  IF given = <<>> \/ given[1] = 0 THEN DefaultTimestampTolerance ELSE given[1]

\* The clock readings whose decimal strings parseInt reads back; every other
\* string is not a number
ClockReadings == {0, 1, 2, 300, 301, 302}

\* parseInt: [nan, n]
parseInt(str) ==
  IF \E n \in ClockReadings : ToString(n) = str
  THEN [nan |-> FALSE, n |-> CHOOSE n \in ClockReadings : ToString(n) = str]
  ELSE [nan |-> TRUE, n |-> 0]

abs(n) == IF n < 0 THEN -n ELSE n

\* Bitwise exclusive or and bitwise or of two character codes
RECURSIVE BitXor(_, _)
BitXor(a, b) ==
  IF a = 0 /\ b = 0 THEN 0
  ELSE (((a % 2) + (b % 2)) % 2) + 2 * BitXor(a \div 2, b \div 2)

RECURSIVE BitOr(_, _)
BitOr(a, b) ==
  IF a = 0 /\ b = 0 THEN 0
  ELSE (IF a % 2 = 1 \/ b % 2 = 1 THEN 1 ELSE 0) + 2 * BitOr(a \div 2, b \div 2)

\* the loop of constantTimeCompare over the characters from i on
RECURSIVE compareFrom(_, _, _, _)
compareFrom(a, b, i, result) ==
  IF i > Len(a) THEN result
  ELSE compareFrom(a, b, i + 1, BitOr(result, BitXor(a[i], b[i])))

\* a comparison that stops at the shorter string
constantTimeCompare_prefix(a, b) ==
  LET n == IF Len(a) < Len(b) THEN Len(a) ELSE Len(b)
  IN compareFrom(SubSeq(a, 1, n), SubSeq(b, 1, n), 1, 0) = 0

\* SecurityManager.constantTimeCompare, on strings as sequences of character
\* codes
constantTimeCompare(a, b) ==
  IF Len(a) # Len(b) THEN FALSE ELSE compareFrom(a, b, 1, 0) = 0

\* The arguments the signing functions are applied to on their own
SignedMethods == <<"get", "POST">>
SignedPaths ==
  << [segs |-> <<"api", "products">>, search |-> <<>>],
     [segs |-> <<"api", "products">>, search |-> <<"page=1">>] >>
SignedBodies == <<"", "{\"a\":1}">>
SignedTimestamps == <<"0", "1", "2", "300", "301", "302", "abc", "">>

IndexIn(seq, x) == CHOOSE i \in DOMAIN seq : seq[i] = x

\* the character code of a hexadecimal digit: '0'..'9', 'a'..'f'
hexCode(h) == IF h < 10 THEN 48 + h ELSE 87 + h

\* digest('hex') of an HMAC over the arguments above: the digests are numbered
\* one to one and the number written as two hexadecimal characters
digestHex(d) ==
  LET payload == d[3]
      n == (((IndexIn(SignedTimestamps, payload[2]) - 1) * 2
               + (IF payload[3] = "GET" THEN 0 ELSE 1)) * 2
               + (IndexIn(SignedPaths, payload[4]) - 1)) * 2
               + (IndexIn(SignedBodies, payload[5][2]) - 1)
      m == n + (IF payload[5][1] = "sha256" THEN 0 ELSE 128)
  IN <<hexCode(m \div 16), hexCode(m % 16)>>

\* SecurityManager.verifySignature with config.timestampTolerance given as
\* tolerance: [ok, value], ok = FALSE when it throws
verifySignature(signature, timestamp, method, path, body, tolerance) ==
  IF ~info.isServer THEN [ok |-> FALSE, value |-> FALSE]
  ELSE LET requestTime == parseInt(timestamp)
           expectedSignature == generateSignature(timestamp, method, path, body)
       IN IF ~requestTime.nan
               /\ abs(now - requestTime.n) > timestampTolerance(tolerance)
          THEN [ok |-> TRUE, value |-> FALSE]
          ELSE IF ~expectedSignature.ok THEN [ok |-> TRUE, value |-> FALSE]
          ELSE [ok |-> TRUE,
                value |-> constantTimeCompare(signature,
                                              digestHex(expectedSignature.value))]

\* Strings whose characters matter are sequences of characters.
sensitiveFields ==
  << <<"p", "a", "s", "s", "w", "o", "r", "d">>,
     <<"s", "e", "c", "r", "e", "t">>,
     <<"k", "e", "y">>,
     <<"t", "o", "k", "e", "n">>,
     <<"a", "p", "i", "_", "k", "e", "y">>,
     <<"p", "r", "i", "v", "a", "t", "e", "_", "k", "e", "y">>,
     <<"s", "e", "c", "r", "e", "t", "_", "k", "e", "y">>,
     <<"w", "e", "b", "h", "o", "o", "k", "_", "s", "e", "c", "r", "e", "t">>,
     <<"e", "m", "a", "i", "l", "_", "v", "e", "r", "i", "f", "i", "e", "d", "_", "a", "t">>,
     <<"r", "e", "m", "e", "m", "b", "e", "r", "_", "t", "o", "k", "e", "n">>,
     <<"d", "e", "l", "e", "t", "e", "d", "_", "a", "t">>,
     <<"c", "r", "e", "a", "t", "e", "d", "_", "b", "y">>,
     <<"u", "p", "d", "a", "t", "e", "d", "_", "b", "y">>,
     <<"d", "e", "l", "e", "t", "e", "d", "_", "b", "y">> >>

allowedTokens ==
  << <<"s", "e", "s", "s", "i", "o", "n", "_", "t", "o", "k", "e", "n">>,
     <<"c", "s", "r", "f", "_", "t", "o", "k", "e", "n">>,
     <<"a", "c", "c", "e", "s", "s", "_", "t", "o", "k", "e", "n">>,
     <<"r", "e", "f", "r", "e", "s", "h", "_", "t", "o", "k", "e", "n">>,
     <<"t", "o", "k", "e", "n">>,
     <<"c", "a", "r", "t", "_", "t", "o", "k", "e", "n">> >>

\* String.toLowerCase, on the upper-case letters the keys below hold
toLowerCase(str) ==
  [i \in DOMAIN str |->
     CASE str[i] = "T" -> "t"
       [] str[i] = "D" -> "d"
       [] str[i] = "A" -> "a"
       [] OTHER -> str[i]]

\* String.includes and String.endsWith
includes(str, part) ==
  \E i \in 1..(Len(str) - Len(part) + 1) :
    SubSeq(str, i, i + Len(part) - 1) = part

endsWith(str, part) ==
  /\ Len(part) <= Len(str)
  /\ SubSeq(str, Len(str) - Len(part) + 1, Len(str)) = part

\* the allowlist matched anywhere in the key
isAllowedToken_anywhere(keyLower) ==
  \E i \in DOMAIN allowedTokens : includes(keyLower, allowedTokens[i])

isAllowedToken(keyLower) ==
  \E i \in DOMAIN allowedTokens : keyLower = allowedTokens[i]

isSensitive(keyLower) ==
  /\ ~isAllowedToken(keyLower)
  /\ \E i \in DOMAIN sensitiveFields :
       \/ includes(keyLower, sensitiveFields[i])
       \/ endsWith(keyLower, <<"_", "s", "e", "c", "r", "e", "t">>)
       \/ endsWith(keyLower, <<"_", "t", "o", "k", "e", "n">>)

\* JavaScript values: a primitive, null, an object (its entries in order) or
\* an array (its items); kids holds the entries [k, v], k = <<>> in an array.
Prim == [t |-> "prim", kids |-> <<>>]
Null == [t |-> "null", kids |-> <<>>]
Obj(entries) == [t |-> "obj", kids |-> entries]
Arr(items) == [t |-> "arr", kids |-> [i \in DOMAIN items |-> [k |-> <<>>, v |-> items[i]]]]
Entry(k, v) == [k |-> k, v |-> v]

\* SecurityManager.sanitizeClientData
RECURSIVE sanitizeClientData(_)
sanitizeClientData(data) ==
  IF data.t = "arr"
  THEN [t |-> "arr",
        kids |-> [i \in DOMAIN data.kids |->
                    Entry(<<>>, sanitizeClientData(data.kids[i].v))]]
  ELSE IF data.t = "obj"
  THEN LET kept == SelectSeq(data.kids, LAMBDA e : ~isSensitive(toLowerCase(e.k)))
       IN [t |-> "obj",
           kids |-> [i \in DOMAIN kept |->
                       Entry(kept[i].k, sanitizeClientData(kept[i].v))]]
  ELSE data

\* The keys of the data sanitized on its own
DataKeys ==
  { <<"p", "a", "s", "s", "w", "o", "r", "d">>,
    <<"s", "e", "s", "s", "i", "o", "n", "_", "t", "o", "k", "e", "n">>,
    <<"m", "y", "_", "s", "e", "s", "s", "i", "o", "n", "_", "t", "o", "k", "e", "n">>,
    <<"T", "o", "k", "e", "n">>,
    <<"t", "o", "k", "e", "n", "s">>,
    <<"m", "o", "n", "k", "e", "y">>,
    <<"a", "p", "i", "_", "k", "e", "y">>,
    <<"n", "a", "m", "e">>,
    <<"D", "e", "l", "e", "t", "e", "d", "_", "A", "t">> }

---------------------------------------------------------------------------
(* Transport outcomes: what the network does to one attempt *)

\* a body with the given fields beside message, success and data, and the
\* given value of its data property
BodyOf(kind, message, success, hasData, fields, data) ==
  [kind |-> kind, message |-> message, success |-> success, hasData |-> hasData,
   fields |-> fields, data |-> data]

Body(kind, message, success, hasData) ==
  BodyOf(kind, message, success, hasData, Obj(<<>>),
         IF hasData THEN Prim ELSE Null)

\* kind: "object" (JSON object), "null" (JSON null), "malformed" (content type
\* JSON, body not JSON), "text" (text/*), "empty" (text/*, no characters),
\* "blob" (any other content type). message: the object's message field, <<>>
\* when it has none. success: the type of the object's success field, "absent",
\* "boolean" or "string". hasData: the object has a data property.
PlainObject == Body("object", <<>>, "absent", FALSE)
NullBody == Body("null", <<>>, "absent", FALSE)
NoBody == Body("blob", <<>>, "absent", FALSE)

\* the response's headers arrive, its body never ends
StalledBody == Body("stalled", <<>>, "absent", FALSE)

Bodies ==
  { PlainObject,
    Body("object", <<>>, "absent", TRUE),
    Body("object", <<"oops">>, "boolean", TRUE),
    Body("object", <<"connect", "ECONNREFUSED">>, "absent", FALSE),
    Body("object", <<>>, "string", TRUE),
    NullBody,
    Body("malformed", <<>>, "absent", FALSE),
    Body("text", <<>>, "absent", FALSE),
    Body("empty", <<>>, "absent", FALSE),
    NoBody }

\* Bodies with fields a client must not see: {password, name},
\* {data: {password, session_token}} and {data: {name}, api_key}
SensitiveBodies ==
  { BodyOf("object", <<>>, "absent", FALSE,
           Obj(<<Entry(<<"p", "a", "s", "s", "w", "o", "r", "d">>, Prim), Entry(<<"n", "a", "m", "e">>, Prim)>>), Null),
    BodyOf("object", <<>>, "absent", TRUE, Obj(<<>>),
           Obj(<<Entry(<<"p", "a", "s", "s", "w", "o", "r", "d">>, Prim), Entry(<<"s", "e", "s", "s", "i", "o", "n", "_", "t", "o", "k", "e", "n">>, Prim)>>)),
    BodyOf("object", <<>>, "absent", TRUE,
           Obj(<<Entry(<<"a", "p", "i", "_", "k", "e", "y">>, Prim)>>), Obj(<<Entry(<<"n", "a", "m", "e">>, Prim)>>)) }

Statuses == {200, 201, 304, 401, 404, 408, 429, 500, 501, 505}

RetryAfter(form, n) == [form |-> form, n |-> n]
NoRetryAfter == RetryAfter("absent", 0)

\* Retry-After values: a number of seconds, an HTTP date n ms from now, or
\* text that is neither.
RetryAfters ==
  { NoRetryAfter, RetryAfter("seconds", 0), RetryAfter("seconds", 2),
    RetryAfter("seconds", 60), RetryAfter("date", 2000),
    RetryAfter("date", 0 - 2000), RetryAfter("garbage", 0) }

Response(status, body, retryAfter) ==
  [fault |-> "none", message |-> <<>>, status |-> status, body |-> body,
   retryAfter |-> retryAfter]

Fault(name, message) ==
  [fault |-> name, message |-> message, status |-> 0,
   body |-> NoBody, retryAfter |-> NoRetryAfter]

\* Rejections of the transport: a native fetch failure, a fetch polyfill's
\* errors, the timeout abort.
Faults ==
  { Fault("TypeError", <<"fetch", "failed">>),
    Fault("FetchError", <<"connect", "ECONNREFUSED">>),
    Fault("FetchError", <<"getaddrinfo", "ENOTFOUND">>),
    Fault("Error", <<"CERT_", "HAS_EXPIRED">>),
    Fault("AbortError", <<"The", "operation", "was", "aborted">>) }

\* every body with a success, a permanent and a retryable status; a plain
\* JSON object with the other statuses
Outcomes ==
  { Response(s, b, NoRetryAfter) : s \in {200, 404, 500}, b \in Bodies }
  \cup { Response(200, b, NoRetryAfter) : b \in SensitiveBodies }
  \cup { Response(s, PlainObject, NoRetryAfter) : s \in Statuses }
  \cup { Response(429, PlainObject, ra) : ra \in RetryAfters }
  \cup { Response(200, StalledBody, NoRetryAfter) }
  \cup Faults

---------------------------------------------------------------------------
(* UniversalHttpClient *)

BaseUrl == Url("https://api.example", <<"api">>, <<>>)

\* a request url: absolute, or a path (with its query) under the base URL
buildUrl(path) ==
  IF path.abs THEN Url(path.origin, path.segs, path.search)
  ELSE Url(BaseUrl.origin, BaseUrl.segs \o path.segs, path.search)

\* Errors: name, message, status (0 = none), whether a response is attached,
\* whether the attached response data is truthy, the attached Retry-After
\* header, and whether it is a native Error instance.
Err(name, message, status, hasResponse, dataTruthy, retryAfter, native) ==
  [name |-> name, message |-> message, status |-> status,
   hasResponse |-> hasResponse, dataTruthy |-> dataTruthy,
   retryAfter |-> retryAfter, native |-> native]

NativeError(name, message) ==
  Err(name, message, 0, FALSE, FALSE, NoRetryAfter, TRUE)

\* String(error) of a native error: "Name: message"
StringOf(error) == <<error.name \o ":">> \o error.message

HttpMessage(status) == <<"HTTP", ToString(status)>>

normalizeError(error) ==
  IF error.hasResponse /\ error.dataTruthy THEN error
  ELSE IF error.hasResponse
  THEN Err("HttpError", HttpMessage(error.status), error.status, TRUE,
           error.dataTruthy, error.retryAfter, FALSE)
  ELSE IF error.status # 0
  THEN Err("HttpError", HttpMessage(error.status), error.status, FALSE, FALSE,
           NoRetryAfter, FALSE)
  ELSE IF error.native /\ error.name \in {"TypeError", "NetworkError"}
  THEN error
  ELSE Err("UnknownError", StringOf(error), 0, FALSE, FALSE, NoRetryAfter, FALSE)

\* truthiness of a parsed response body
BodyTruthy(body) == body.kind \in {"object", "blob", "text", "malformed"}

\* only 200 taken as success
ResponseOk_only200(status) == status = 200

\* response.ok of fetch, validateStatus of axios
ResponseOk(status) == status >= 200 /\ status < 300

Failure(error, sent, wireBody) ==
  [ok |-> FALSE, status |-> 0, data |-> NullBody,
   error |-> error, sent |-> sent, wire |-> wireBody, hung |-> FALSE]

Success(status, data, wireBody) ==
  [ok |-> TRUE, status |-> status, data |-> data,
   error |-> NativeError("none", <<>>), sent |-> TRUE, wire |-> wireBody,
   hung |-> FALSE]

\* the promise of the attempt never settles
Hung(wireBody) ==
  [Failure(NativeError("none", <<>>), TRUE, wireBody) EXCEPT !.hung = TRUE]

fetchRequest(request, body, o) ==
  LET sentBody == IF request.method # "GET" THEN body ELSE ""
  IN IF ~runtime.abort
     THEN Failure(NativeError("ReferenceError",
                              <<"AbortController", "is", "not", "defined">>),
                  FALSE, "")
     ELSE IF ~runtime.fetch
     THEN Failure(normalizeError(NativeError("ReferenceError",
                                   <<"fetch", "is", "not", "defined">>)),
                  FALSE, "")
     ELSE IF o.fault # "none"
     THEN Failure(normalizeError(NativeError(o.fault, o.message)), TRUE, sentBody)
     ELSE IF o.body.kind = "stalled"
     THEN Hung(sentBody)
     ELSE IF o.body.kind = "malformed"
     THEN Failure(normalizeError(NativeError("SyntaxError",
                                   <<"Unexpected", "token">>)), TRUE, sentBody)
     ELSE IF ~ResponseOk(o.status)
     THEN IF o.body.kind = "null"
          THEN Failure(normalizeError(NativeError("TypeError",
                         <<"Cannot", "read", "properties", "of", "null">>)),
                       TRUE, sentBody)
          ELSE Failure(normalizeError(
                         Err("HttpError",
                             IF o.body.message # <<>> THEN o.body.message
                             ELSE HttpMessage(o.status),
                             o.status, TRUE, BodyTruthy(o.body), o.retryAfter,
                             FALSE)),
                       TRUE, sentBody)
     ELSE Success(o.status, o.body, sentBody)

\* what axios puts on the wire for its data option
axiosSerialize(data) == IF data = "undefined" THEN "" ELSE JSONstringify(data)

nodeRequest(request, body, o) ==
  IF runtime.lib = "none" \/ ~info.isServer
  THEN Failure(NativeError("Error", <<"No", "HTTP", "client", "available">>),
               FALSE, "")
  ELSE IF runtime.lib = "axios"
  THEN LET data == IF request.method # "GET"
                   THEN JSONparse(IF body # "" THEN body ELSE "{}")
                   ELSE "undefined"
           sentBody == axiosSerialize(data)
       IN IF o.fault # "none"
          THEN Failure(normalizeError(NativeError(o.fault, o.message)),
                       TRUE, sentBody)
          ELSE IF o.body.kind = "stalled"
          THEN Failure(normalizeError(NativeError("AxiosError",
                         <<"timeout", "of", "30000ms", "exceeded">>)),
                       TRUE, sentBody)
          ELSE IF ~ResponseOk(o.status)
          THEN Failure(normalizeError(
                         Err("AxiosError",
                             <<"Request", "failed", "with", "status", "code",
                               ToString(o.status)>>,
                             o.status, TRUE, BodyTruthy(o.body), o.retryAfter,
                             TRUE)),
                       TRUE, sentBody)
          ELSE Success(o.status, o.body, sentBody)
  ELSE fetchRequest(request, body, o)

makeRequest(request, body, o) ==
  IF info.isBrowser \/ hasFetch THEN fetchRequest(request, body, o)
  ELSE IF info.isNode THEN nodeRequest(request, body, o)
  ELSE Failure(NativeError("Error", <<"No", "HTTP", "client", "available",
                                      "for", "this", "environment">>),
               FALSE, "")

\* SecurityManager.validateResponse
validateResponse(data) ==
  /\ data.kind \in {"object", "blob"}
  /\ data.success # "string"

\* the body as validateResponse leaves it: its data sanitized in place
validatedResponse(data) ==
  [data EXCEPT !.data = IF data.hasData /\ @.t # "null"
                        THEN sanitizeClientData(@) ELSE @]

\* the list without the connection faults
nonRetryableErrors_abortOnly == {"ABORT_ERR"}

nonRetryableErrors == {"ENOTFOUND", "ECONNREFUSED", "CERT_", "ABORT_ERR"}

shouldNotRetry(error) ==
  LET status == error.status
  IN IF status # 0 /\ status >= 400 /\ status < 500
     THEN ~(status = 408 \/ status = 429)
     ELSE IF status # 0 /\ (status = 501 \/ status = 505)
     THEN TRUE
     ELSE \E w \in nonRetryableErrors : Includes(error.message, w)

\* the same delay before every attempt
retryDelay_constant(error, n) == config.retryDelay

\* the delay before the next attempt
retryDelay(error, n) ==
  LET backoff == config.retryDelay * (2 ^ n)
      hint == error.retryAfter
      ms == IF hint.form = "seconds" THEN hint.n * 1000 ELSE hint.n
  IN IF /\ error.status = 429
        /\ error.hasResponse
        /\ hint.form \in {"seconds", "date"}
        /\ ms > 0 /\ ms < MaxRetryAfterMs
     THEN ms
     ELSE backoff

\* the loop bound taken one too far
retries_oneMore(error, n) ==
  ~shouldNotRetry(error) /\ n <= config.maxRetries

\* the retry loop goes on to another attempt after attempt n failed with error
retries(error, n) ==
  /\ ~(shouldNotRetry(error) \/ n = config.maxRetries)
  /\ n + 1 <= config.maxRetries

---------------------------------------------------------------------------
(* Calls made on the UniversalHttpClient *)

HttpRequest(method, url, data, hdrs) ==
  [method |-> method, url |-> url, data |-> data, headers |-> hdrs]

RelUrl(segs, search) ==
  [abs |-> FALSE, origin |-> "", segs |-> segs, search |-> search]

AbsUrl(origin, segs, search) ==
  [abs |-> TRUE, origin |-> origin, segs |-> segs, search |-> search]

Param(key, value) == [key |-> key, value |-> value]

\* URLSearchParams of the parameters whose value is not undefined, null or ''
queryString(params) ==
  LET kept == SelectSeq(params, LAMBDA q : q.value \notin {"undefined", "null", ""})
  IN [i \in 1..Len(kept) |-> kept[i].key \o "=" \o kept[i].value]

get(url, params, hdrs) ==
  LET q == queryString(params)
  IN HttpRequest("GET",
                 IF Len(params) > 0 /\ q # <<>>
                 THEN [url EXCEPT !.search = url.search \o q] ELSE url,
                 "undefined", hdrs)

post(url, data, hdrs) == HttpRequest("POST", url, data, hdrs)

delete(url, hdrs) == HttpRequest("DELETE", url, "undefined", hdrs)

patch(url, data, hdrs) == HttpRequest("PATCH", url, data, hdrs)

CallerHeaders ==
  { [k \in {"Authorization", "User-Agent"} |->
       IF k = "Authorization" THEN "Bearer caller" ELSE "caller-agent"],
    [k \in {"X-Cart-Token", "X-Include"} |->
       IF k = "X-Cart-Token" THEN "caller-cart" ELSE ""] }

Call(op, request) == [op |-> op, request |-> request]

\* SecureStorefrontSDK.auth.logout
logoutCall == Call("logout", post(RelUrl(<<"customer", "logout">>, <<>>),
                                  "undefined", NoHeaders))

Calls ==
  { Call("get", get(RelUrl(<<"products">>, <<>>), params, NoHeaders)) :
      params \in { <<>>, <<Param("page", "1")>>, <<Param("page", "2")>>,
                   <<Param("q", ""), Param("page", "1")>> } }
  \cup { Call("get", get(RelUrl(<<"store">>, <<>>), <<>>, h)) : h \in CallerHeaders }
  \cup { Call("post", post(RelUrl(<<"cart", "add">>, <<>>), d, NoHeaders)) :
           d \in DataValues }
  \cup { Call("request", HttpRequest("GET", RelUrl(<<"products">>, <<>>), "objA",
                                     NoHeaders)),
         Call("delete", delete(AbsUrl("https://other.example", <<"cart", "clear">>,
                                      <<"force=1">>), NoHeaders)),
         logoutCall }

---------------------------------------------------------------------------
(* State of the UniversalHttpClient and its SecurityManager *)

DefaultHeaders ==
  [k \in {"Content-Type", "Accept"} |-> "application/json"]

Configs ==
  [maxRetries : 0..MaxRetriesBound, retryDelay : {DefaultRetryDelay},
   publicKey : {"pk"}, secretKey : {Absent, "sk"}, headers : {DefaultHeaders}]

\* SecurityManager.validateConfig does not throw
validateConfig(g, c) == ~(detect(g).isServer /\ c.secretKey = Absent)

NoRequest == HttpRequest("", Url("", <<>>, <<>>), "undefined", NoHeaders)
NoSigned == [path |-> pathname(Url("", <<>>, <<>>)), body |-> ""]
NoOutcome == Failure(NativeError("none", <<>>), FALSE, "")

InitU ==
  /\ runtime \in Runtimes
  /\ config \in Configs
  /\ validateConfig(runtime, config)
  /\ authToken = Absent
  /\ cartToken = Absent
  /\ lastSetAuth = "none"
  /\ lastSetCart = "none"
  /\ now = 0
  /\ pc = "idle"
  /\ call = "none"
  /\ req = NoRequest
  /\ headers = NoHeaders
  /\ signed = NoSigned
  /\ attempt = 0
  /\ attempts = 0
  /\ wire = "unsent"
  /\ carried = NoHeaders
  /\ lastWait = 0
  /\ waited = 0
  /\ outcome = NoOutcome

AuthTokenArgs == {"null", "", "t1", "t2"}
CartTokenArgs == {"null", "c1"}

\* SecurityManager.setAuthToken (SecureStorefrontSDK.setAuthToken)
setAuthToken(token) ==
  /\ authToken' = storedToken(token)
  /\ lastSetAuth' = token
  /\ UNCHANGED <<runtime, config, cartToken, lastSetCart, now, pc, call, req,
                 headers, signed, attempt, attempts, wire, carried, lastWait,
                 waited, outcome, legacy, probe, registry>>

\* SecurityManager.setCartToken (SecureStorefrontSDK.setCartToken)
setCartToken(token) ==
  /\ cartToken' = storedToken(token)
  /\ lastSetCart' = token
  /\ UNCHANGED <<runtime, config, authToken, lastSetAuth, now, pc, call, req,
                 headers, signed, attempt, attempts, wire, carried, lastWait,
                 waited, outcome, legacy, probe, registry>>

userAgent == "StorefrontSDK/1.0 (" \o info.platform \o ")"

\* the body string request() computes from request.data
serializeBody(data) == IF Truthy(data) THEN JSONstringify(data) ELSE ""

\* the path request() hands to getAuthHeaders
signedPath(url) == pathname(url)

\* the merged headers of request()
mergeHeaders(authHeaders, callHeaders) ==
  LET merged == Merge(Merge(config.headers, authHeaders), callHeaders)
  IN IF info.isNode
     THEN Merge(merged, [k \in {"User-Agent"} |-> userAgent])
     ELSE merged

\* UniversalHttpClient.request up to its first await
request(c) ==
  /\ pc = "idle"
  /\ LET url == buildUrl(c.request.url)
         body == serializeBody(c.request.data)
         authHeaders == getAuthHeaders(c.request.method, signedPath(url), body)
     IN /\ req' = [c.request EXCEPT !.url = url]
        /\ signed' = [path |-> signedPath(url), body |-> body]
        /\ headers' = mergeHeaders(authHeaders, c.request.headers)
  /\ call' = c.op
  /\ pc' = "attempting"
  /\ attempt' = 0
  /\ attempts' = 0
  /\ wire' = "unsent"
  /\ carried' = NoHeaders
  /\ lastWait' = 0
  /\ waited' = 0
  /\ outcome' = NoOutcome
  /\ UNCHANGED <<runtime, config, authToken, cartToken, lastSetAuth, lastSetCart,
                 now, legacy, probe, registry>>

\* the headers rebuilt from the tokens stored when the attempt starts
attemptHeaders_rebuilt ==
  mergeHeaders(getAuthHeaders(req.method, signed.path, signed.body), req.headers)

\* the headers makeRequest is handed: those merged before the loop
attemptHeaders == headers

InvalidResponseFormat == NativeError("Error", <<"Invalid", "response", "format">>)

\* one iteration of the retry loop: the attempt, its validation, the decision
\* to retry and the delay
Attempt(o) ==
  /\ pc = "attempting"
  /\ LET r == makeRequest(req, signed.body, o)
         valid == r.ok /\ validateResponse(r.data)
         error == IF r.ok THEN InvalidResponseFormat ELSE r.error
     IN /\ attempts' = attempts + 1
        /\ wire' = IF r.sent THEN r.wire ELSE wire
        /\ carried' = IF r.sent THEN attemptHeaders ELSE carried
        /\ IF r.hung
           THEN /\ pc' = "hung"
                /\ outcome' = r
                /\ UNCHANGED <<attempt, lastWait, waited>>
           ELSE IF valid
           THEN /\ pc' = "succeeded"
                /\ outcome' = [r EXCEPT !.data = validatedResponse(r.data)]
                /\ UNCHANGED <<attempt, lastWait, waited>>
           ELSE IF retries(error, attempt)
           THEN /\ attempt' = attempt + 1
                /\ lastWait' = retryDelay(error, attempt)
                /\ waited' = waited + 1
                /\ UNCHANGED <<pc, outcome>>
           ELSE /\ pc' = "failed"
                /\ outcome' = Failure(error, r.sent, r.wire)
                /\ UNCHANGED <<attempt, lastWait, waited>>
  /\ UNCHANGED <<runtime, config, authToken, cartToken, lastSetAuth, lastSetCart,
                 now, call, req, headers, signed, legacy, probe, registry>>

---------------------------------------------------------------------------
(* The cart operations of SecureStorefrontSDK *)

\* more JavaScript values: a string (its text the key of its only kid), false
\* and undefined
Str(text) == [t |-> "string", kids |-> <<Entry(<<text>>, Null)>>]
False == [t |-> "false", kids |-> <<>>]
Undefined == [t |-> "undefined", kids |-> <<>>]

\* String(value)
textOf(v) == IF v.t = "string" THEN v.kids[1].k[1] ELSE "[" \o v.t \o "]"

\* value.key, for a value that is neither null nor undefined
field(v, key) ==
  LET at == { i \in DOMAIN v.kids : v.kids[i].k = key }
  IN IF v.t = "obj" /\ at # {}
     THEN v.kids[CHOOSE i \in at : \A j \in at : j <= i].v
     ELSE Undefined

\* truthiness of a value
truthy(v) == v.t \notin {"null", "undefined", "false"} /\ v # Str("")

cart_token == <<"c", "a", "r", "t", "_", "t", "o", "k", "e", "n">>

\* response.data.data of an HttpResponse
responseDataData(body) ==
  IF body.kind = "object" /\ body.hasData THEN body.data ELSE Undefined

\* what a cart operation does with the response it awaited: throws, or
\* returns after calling setCartToken(set[1]) when set is not empty
CartResult(throws, set) == [throws |-> throws, set |-> set]

\* the response handed back with its cart_token left where it is
handleCartResponse_tokenIgnored(responseData) ==
  CartResult(~truthy(responseData), <<>>)

\* SecureStorefrontSDK.handleCartResponse
handleCartResponse(responseData) ==
  IF ~truthy(responseData) THEN CartResult(TRUE, <<>>)
  ELSE IF /\ field(responseData, <<"s", "u", "c", "c", "e", "s", "s">>) = False
          /\ truthy(field(responseData, <<"m", "e", "s", "s", "a", "g", "e">>))
  THEN CartResult(TRUE, <<>>)
  ELSE IF truthy(field(responseData, cart_token))
  THEN CartResult(FALSE, <<textOf(field(responseData, cart_token))>>)
  ELSE CartResult(FALSE, <<>>)

\* the cart operations that hand their response to handleCartResponse
HandledCartOps ==
  {"cart.get", "cart.addItem", "cart.updateItem", "cart.removeItem",
   "cart.applyCoupon", "cart.removeCoupon"}

CartOps == HandledCartOps \cup {"cart.getCount", "cart.clear"}

\* SecureStorefrontSDK.cart: the operation op after its request returned body
cartOperation(op, body) ==
  LET responseData == responseDataData(body)
  IN IF op \in HandledCartOps THEN handleCartResponse(responseData)
     ELSE IF op = "cart.clear" THEN CartResult(FALSE, <<"null">>)
     ELSE IF responseData.t \in {"undefined", "null"} THEN CartResult(TRUE, <<>>)
     ELSE IF truthy(field(responseData, cart_token))
     THEN CartResult(FALSE, <<textOf(field(responseData, cart_token))>>)
     ELSE CartResult(FALSE, <<>>)

\* the caller receives the response or the error, a cart operation having
\* looked at its response first; the client is idle again
Return ==
  /\ pc \in {"succeeded", "failed"}
  /\ pc' = "idle"
  /\ call' = "none"
  /\ req' = NoRequest
  /\ headers' = NoHeaders
  /\ signed' = NoSigned
  /\ attempt' = 0
  /\ attempts' = 0
  /\ wire' = "unsent"
  /\ carried' = NoHeaders
  /\ lastWait' = 0
  /\ waited' = 0
  /\ outcome' = NoOutcome
  /\ IF pc = "succeeded" /\ call \in CartOps /\ cartOperation(call, outcome.data).set # <<>>
     THEN /\ cartToken' = storedToken(cartOperation(call, outcome.data).set[1])
          /\ lastSetCart' = cartOperation(call, outcome.data).set[1]
     ELSE UNCHANGED <<cartToken, lastSetCart>>
  /\ UNCHANGED <<runtime, config, authToken, lastSetAuth, now, legacy, probe, registry>>

NextU ==
  \/ \E t \in AuthTokenArgs : pc = "idle" /\ setAuthToken(t)
  \/ \E t \in CartTokenArgs : pc = "idle" /\ setCartToken(t)
  \/ \E c \in Calls : request(c)
  \/ \E o \in Outcomes : Attempt(o)
  \/ Return

---------------------------------------------------------------------------
(* The legacy HttpClient (utils/http-client) and the services built on it *)

LegacyConfig == [publicKey |-> "pk", secretKey |-> "sk"]

\* HttpClient.generateSignature
legacyGenerateSignature(timestamp, method, path, body) ==
  hmacSha256(Payload(SignatureVersion, timestamp, method, path, sha256(body)),
             LegacyConfig.secretKey)

\* the full URL of an endpoint
legacyFullUrl(endpoint) ==
  IF endpoint.abs THEN Url(endpoint.origin, endpoint.segs, endpoint.search)
  ELSE Url(BaseUrl.origin, BaseUrl.segs \o endpoint.segs, endpoint.search)

\* the path the legacy client signs
legacySignedPath(url) == pathnameAndSearch(url)

\* the headers the legacy client sends, for the tokens stored when they are built
legacyHeaders(timestamp, signature, callHeaders, auth, cart) ==
  LET fixed == [k \in {"Content-Type", "Accept", "X-Public-Key", "X-Signature",
                       "X-Timestamp", "X-Signature-Version"} |->
                  CASE k = "X-Public-Key" -> LegacyConfig.publicKey
                    [] k = "X-Signature" -> signature
                    [] k = "X-Timestamp" -> timestamp
                    [] k = "X-Signature-Version" -> SignatureVersion
                    [] OTHER -> "application/json"]
      withCall == Merge(fixed, callHeaders)
      withAuth == IF auth \notin {Absent, ""}
                  THEN Merge(withCall, [k \in {"Authorization"} |-> Bearer(auth)])
                  ELSE withCall
  IN IF cart \notin {Absent, ""}
     THEN Merge(withAuth, [k \in {"X-Cart-Token"} |-> cart])
     ELSE withAuth

\* the envelope returned for a successful response body
legacyEnvelope(body) ==
  IF body.kind = "object" /\ body.hasData
  THEN [success |-> body.success, data |-> "own", message |-> body.message]
  ELSE [success |-> "boolean", data |-> "raw", message |-> <<>>]

NoEnvelope == [success |-> "absent", data |-> "none", message |-> <<>>]

LegacyOutcome(ok, envelope, error) ==
  [ok |-> ok, envelope |-> envelope, error |-> error]

NoLegacyOutcome == LegacyOutcome(FALSE, NoEnvelope, NativeError("none", <<>>))

LegacyIdle(auth, cart) ==
  [authToken |-> auth, cartToken |-> cart, pc |-> "idle", call |-> "none",
   req |-> NoRequest, signed |-> [path |-> pathname(Url("", <<>>, <<>>)), body |-> ""],
   timestamp |-> 0, headers |-> NoHeaders, wire |-> "unsent",
   outcome |-> NoLegacyOutcome]

InitL == legacy = LegacyIdle(Absent, Absent)

\* AuthService.logout of the legacy services
legacyLogoutCall == Call("logout", post(RelUrl(<<"customer", "logout">>, <<>>),
                                        "undefined", NoHeaders))

LegacyCalls ==
  { Call("get", HttpRequest("GET", RelUrl(<<"products">>, q), "undefined", NoHeaders)) :
      q \in { <<>>, <<"page=1">>, <<"page=2">> } }
  \cup { Call("get", HttpRequest("GET", RelUrl(<<"store">>, <<>>), "undefined", h)) :
           h \in CallerHeaders }
  \cup { Call("post", post(RelUrl(<<"cart", "add">>, <<>>), d, NoHeaders)) :
           d \in {"undefined", "objA", "emptyObj"} }
  \cup { legacyLogoutCall }

LegacyTokenArgs == {"", "t1", "t2"}

\* the outcomes of the universal client whose body ends, and every body with
\* status 401
LegacyOutcomes ==
  { o \in Outcomes : o.body.kind # "stalled" }
  \cup { Response(401, b, NoRetryAfter) : b \in Bodies }

\* HttpClient.setAuthToken
legacySetAuthToken(token) ==
  /\ legacy.pc \in {"idle", "signing", "awaiting"}
  /\ legacy' = [legacy EXCEPT !.authToken = token]
  /\ UNCHANGED <<uvars, probe, registry>>

\* HttpClient.clearAuthToken
legacyClearAuthToken ==
  /\ legacy.pc \in {"idle", "signing", "awaiting"}
  /\ legacy' = [legacy EXCEPT !.authToken = Absent]
  /\ UNCHANGED <<uvars, probe, registry>>

\* HttpClient.setCartToken
legacySetCartToken(token) ==
  /\ legacy.pc \in {"idle", "signing", "awaiting"}
  /\ legacy' = [legacy EXCEPT !.cartToken = token]
  /\ UNCHANGED <<uvars, probe, registry>>

\* HttpClient.clearCartToken
legacyClearCartToken ==
  /\ legacy.pc \in {"idle", "signing", "awaiting"}
  /\ legacy' = [legacy EXCEPT !.cartToken = Absent]
  /\ UNCHANGED <<uvars, probe, registry>>

\* HttpClient.request up to the await of generateSignature
legacyRequest(c) ==
  /\ legacy.pc = "idle"
  /\ LET url == legacyFullUrl(c.request.url)
         bodyString == serializeBody(c.request.data)
     IN legacy' = [legacy EXCEPT
                     !.pc = "signing",
                     !.call = c.op,
                     !.req = [c.request EXCEPT !.url = url],
                     !.timestamp = now,
                     !.signed = [path |-> legacySignedPath(url), body |-> bodyString],
                     !.headers = NoHeaders,
                     !.wire = "unsent",
                     !.outcome = NoLegacyOutcome]
  /\ UNCHANGED <<uvars, probe, registry>>

\* HttpClient.request from the signature to the await of fetch
legacySend ==
  /\ legacy.pc = "signing"
  /\ LET signature == legacyGenerateSignature(legacy.timestamp, legacy.req.method,
                                              legacy.signed.path, legacy.signed.body)
         hdrs == legacyHeaders(legacy.timestamp, signature, legacy.req.headers,
                               legacy.authToken, legacy.cartToken)
     IN IF runtime.fetch
        THEN legacy' = [legacy EXCEPT !.pc = "awaiting", !.headers = hdrs,
                                      !.wire = legacy.signed.body]
        ELSE legacy' = [legacy EXCEPT
                          !.pc = "failed", !.headers = hdrs,
                          !.outcome = LegacyOutcome(FALSE, NoEnvelope,
                             NativeError("ReferenceError",
                                         <<"fetch", "is", "not", "defined">>))]
  /\ UNCHANGED <<uvars, probe, registry>>

\* response.json() of the legacy client succeeds
legacyParses(body) == body.kind \in {"object", "null"}

LegacyHttpError(message, status, body) ==
  Err("Error", message, status, TRUE, BodyTruthy(body), NoRetryAfter, TRUE)

\* HttpClient.request after the await of fetch
legacyRespond(o) ==
  /\ legacy.pc = "awaiting"
  /\ IF o.fault # "none"
     THEN legacy' = [legacy EXCEPT
                       !.pc = "failed",
                       !.outcome = LegacyOutcome(FALSE, NoEnvelope,
                                                 NativeError(o.fault, o.message))]
     ELSE IF o.status = 429
     THEN legacy' = [legacy EXCEPT
                       !.pc = "failed",
                       !.outcome = LegacyOutcome(FALSE, NoEnvelope,
                          NativeError("Error", <<"Rate", "limit", "exceeded">>))]
     ELSE IF ~legacyParses(o.body)
     THEN legacy' = [legacy EXCEPT
                       !.pc = "failed",
                       !.outcome = LegacyOutcome(FALSE, NoEnvelope,
                          LegacyHttpError(<<"Invalid", "JSON", "response">>,
                                          o.status, PlainObject))]
     ELSE IF ~ResponseOk(o.status)
     THEN legacy' = [legacy EXCEPT
                       !.pc = "failed",
                       !.authToken = IF o.status = 401 THEN Absent ELSE @,
                       !.outcome = LegacyOutcome(FALSE, NoEnvelope,
                          IF o.body.kind = "null"
                          THEN NativeError("TypeError",
                                 <<"Cannot", "read", "properties", "of", "null">>)
                          ELSE LegacyHttpError(
                                 IF o.body.message # <<>> THEN o.body.message
                                 ELSE HttpMessage(o.status),
                                 o.status, o.body))]
     ELSE legacy' = [legacy EXCEPT
                       !.pc = "succeeded",
                       !.outcome = LegacyOutcome(TRUE, legacyEnvelope(o.body),
                                                 NativeError("none", <<>>))]
  /\ UNCHANGED <<uvars, probe, registry>>

\* the caller receives the envelope or the error; AuthService.logout clears
\* the bearer token in its finally block
legacyReturn ==
  /\ legacy.pc \in {"succeeded", "failed"}
  /\ legacy' = LegacyIdle(IF legacy.call = "logout" THEN Absent ELSE legacy.authToken,
                          legacy.cartToken)
  /\ UNCHANGED <<uvars, probe, registry>>

NextL ==
  \/ \E t \in LegacyTokenArgs : legacySetAuthToken(t)
  \/ legacyClearAuthToken
  \/ legacySetCartToken("c1")
  \/ legacyClearCartToken
  \/ \E c \in LegacyCalls : legacyRequest(c)
  \/ legacySend
  \/ \E o \in LegacyOutcomes : legacyRespond(o)
  \/ legacyReturn

\* both clients constructed, no request made yet
InitUniversal == InitU /\ InitL /\ probe = NoProbe /\ registry = NoRegistry

\* the universal client stays idle while the legacy client is exercised
InitLegacy ==
  /\ InitU
  /\ config.maxRetries = DefaultMaxRetries
  /\ config.secretKey = "sk"
  /\ InitL
  /\ probe = NoProbe /\ registry = NoRegistry

SpecU == InitUniversal /\ [][NextU]_vars

\* Node with fetch, Node with axios, and a context with no transport
RetryRuntimes ==
  { g \in Runtimes : \/ g.proc /\ ~g.win /\ g.fetch
                     \/ g.lib = "axios"
                     \/ ~g.proc /\ ~g.win /\ ~g.worker /\ ~g.fetch }

\* a signing client on one of these runtimes
InitRetry ==
  /\ InitU
  /\ runtime \in RetryRuntimes
  /\ config.secretKey = "sk"
  /\ InitL
  /\ probe = NoProbe /\ registry = NoRegistry

SpecR == InitRetry /\ [][NextU]_vars

\* Date.now() moves on while a request is under way
Tick ==
  /\ now < MaxClock
  /\ now' = now + 1
  /\ UNCHANGED <<runtime, config, authToken, cartToken, lastSetAuth, lastSetCart,
                 pc, call, req, headers, signed, attempt, attempts, wire, carried,
                 lastWait, waited, outcome, legacy, probe, registry>>

\* a signing client on Node with fetch
InitInterleaved ==
  /\ InitU
  /\ runtime.proc /\ ~runtime.win /\ runtime.fetch
  /\ config.secretKey = "sk"
  /\ InitL
  /\ probe = NoProbe /\ registry = NoRegistry

InterleavedCalls ==
  { Call("get", get(RelUrl(<<"products">>, <<>>), <<>>, NoHeaders)),
    Call("post", post(RelUrl(<<"cart", "add">>, <<>>), "objA", NoHeaders)) }

InterleavedOutcomes ==
  { Response(s, PlainObject, NoRetryAfter) : s \in {200, 404, 500} }
  \cup { Response(429, PlainObject, RetryAfter("seconds", 2)),
         Fault("TypeError", <<"fetch", "failed">>) }

\* the setters are called at any moment, also between the attempts of a
\* request
NextInterleaved ==
  \/ \E t \in {"null", "t1", "t2"} : setAuthToken(t)
  \/ \E t \in CartTokenArgs : setCartToken(t)
  \/ \E c \in InterleavedCalls : request(c)
  \/ \E o \in InterleavedOutcomes : Attempt(o)
  \/ Return
  \/ Tick

SpecI == InitInterleaved /\ [][NextInterleaved]_vars

\* The defaults of SecureStorefrontSDK
SdkDefaultMaxRetries == 3
SdkDefaultRetryDelay == 1000

\* An option of a configuration object is <<>> when it is left out and <<v>>
\* when it is given as v.
optionOr(option, default) == IF option = <<>> THEN default ELSE option[1]

\* SecureStorefrontSDK constructor: the defaults, overridden by the options
\* given
sdkConfig(given) ==
  [maxRetries |-> optionOr(given.maxRetries, SdkDefaultMaxRetries),
   retryDelay |-> optionOr(given.retryDelay, SdkDefaultRetryDelay),
   publicKey |-> given.publicKey, secretKey |-> given.secretKey]

\* UniversalHttpClient constructor: its defaults, overridden by the options
\* given, with the key material of the SecurityManager
httpConfig(given, publicKey, secretKey) ==
  [maxRetries |-> optionOr(given.maxRetries, DefaultMaxRetries),
   retryDelay |-> optionOr(given.retryDelay, DefaultRetryDelay),
   publicKey |-> publicKey, secretKey |-> secretKey, headers |-> DefaultHeaders]

\* new SecureStorefrontSDK(given): the http client gets the maxRetries and
\* retryDelay of the SDK configuration
sdkHttpConfig(given) ==
  LET c == sdkConfig(given)
  IN httpConfig([maxRetries |-> <<c.maxRetries>>, retryDelay |-> <<c.retryDelay>>],
                c.publicKey, c.secretKey)

\* the configurations that give neither maxRetries nor retryDelay
PlainSdkConfigs ==
  [maxRetries : {<<>>}, retryDelay : {<<>>}, publicKey : {"pk"},
   secretKey : {Absent, "sk"}]

\* createStorefrontSDK with such a configuration
InitSdk ==
  /\ runtime \in Runtimes
  /\ config \in { sdkHttpConfig(given) : given \in PlainSdkConfigs }
  /\ validateConfig(runtime, config)
  /\ authToken = Absent /\ cartToken = Absent
  /\ lastSetAuth = "none" /\ lastSetCart = "none"
  /\ now = 0
  /\ pc = "idle" /\ call = "none" /\ req = NoRequest
  /\ headers = NoHeaders /\ signed = NoSigned /\ outcome = NoOutcome
  /\ attempt = 0 /\ attempts = 0 /\ lastWait = 0 /\ waited = 0
  /\ wire = "unsent"
  /\ carried = NoHeaders
  /\ InitL
  /\ probe = NoProbe /\ registry = NoRegistry

SpecSdk == InitSdk /\ [][NextU]_vars

\* the calls the cart operations make, and one that is no cart operation
CartCalls ==
  { Call("cart.get", get(RelUrl(<<"cart">>, <<>>), <<>>, NoHeaders)),
    Call("cart.addItem", post(RelUrl(<<"cart", "add">>, <<>>), "objA", NoHeaders)),
    Call("cart.updateItem",
         patch(RelUrl(<<"cart", "items", "i1">>, <<>>), "objA", NoHeaders)),
    Call("cart.removeItem",
         delete(RelUrl(<<"cart", "items", "i1">>, <<>>), NoHeaders)),
    Call("cart.clear", delete(RelUrl(<<"cart", "clear">>, <<>>), NoHeaders)),
    Call("cart.getCount", get(RelUrl(<<"cart", "count">>, <<>>), <<>>, NoHeaders)),
    Call("cart.applyCoupon",
         post(RelUrl(<<"cart", "coupon">>, <<>>), "objA", NoHeaders)),
    Call("cart.removeCoupon", delete(RelUrl(<<"cart", "coupon">>, <<>>), NoHeaders)),
    Call("get", get(RelUrl(<<"products">>, <<>>), <<>>, NoHeaders)) }

\* a cart with the given fields, in the envelope {success: true, data: cart}
CartEnvelope(entries) ==
  BodyOf("object", <<>>, "boolean", TRUE, Obj(<<>>), Obj(entries))

\* Bodies of cart responses: a cart with cart_token c1, c2 or '', a cart
\* without one, an error object {success: false, message, cart_token} as the
\* cart, a body with cart_token beside data, and one with cart_token and no
\* data.
CartBodies ==
  { CartEnvelope(<<Entry(cart_token, Str("c1")), Entry(<<"n", "a", "m", "e">>, Prim)>>),
    CartEnvelope(<<Entry(cart_token, Str("c2"))>>),
    CartEnvelope(<<Entry(cart_token, Str(""))>>),
    CartEnvelope(<<Entry(<<"n", "a", "m", "e">>, Prim)>>),
    CartEnvelope(<<Entry(<<"s", "u", "c", "c", "e", "s", "s">>, False),
                   Entry(<<"m", "e", "s", "s", "a", "g", "e">>, Str("oops")),
                   Entry(cart_token, Str("c2"))>>),
    BodyOf("object", <<>>, "boolean", TRUE,
           Obj(<<Entry(cart_token, Str("c2"))>>),
           Obj(<<Entry(<<"n", "a", "m", "e">>, Prim)>>)),
    BodyOf("object", <<>>, "boolean", FALSE,
           Obj(<<Entry(cart_token, Str("c1"))>>), Null) }

CartOutcomes ==
  { Response(200, b, NoRetryAfter) :
      b \in CartBodies \cup {PlainObject, NoBody, Body("object", <<>>, "absent", TRUE)} }
  \cup { Response(s, PlainObject, NoRetryAfter) : s \in {404, 500} }
  \cup { Fault("TypeError", <<"fetch", "failed">>) }

NextCart ==
  \/ \E t \in CartTokenArgs : pc = "idle" /\ setCartToken(t)
  \/ \E c \in CartCalls : request(c)
  \/ \E o \in CartOutcomes : Attempt(o)
  \/ Return

SpecCart == InitSdk /\ [][NextCart]_vars

---------------------------------------------------------------------------
(* SecureStorefrontSDK.createInstance and the instances it hands out *)

\* a StorefrontConfig; option is <<>> when maxRetries, retryDelay and timeout
\* are left out, <<n>> when the three are given as n
SdkGiven(apiUrl, publicKey, secretKey, option) ==
  [apiUrl |-> apiUrl, publicKey |-> publicKey, secretKey |-> secretKey,
   maxRetries |-> option, retryDelay |-> option, timeout |-> option]

\* Configurations of one store with different secrets and options, of the
\* same store under another public key, of another store, and one without
\* secret.
SdkGivens ==
  { SdkGiven("https://a.example", "pk", "sk", <<>>),
    SdkGiven("https://a.example", "pk", "sk2", <<5>>),
    SdkGiven("https://a.example", "pk", Absent, <<>>),
    SdkGiven("https://a.example", "x_pk", "sk", <<>>),
    SdkGiven("https://a.example_x", "pk", "sk", <<>>),
    SdkGiven("https://b.example", "pk", "sk", <<1>>) }

\* the key with the secret in it
instanceKey_withSecret(given) ==
  given.apiUrl \o "_" \o given.publicKey \o "_" \o given.secretKey

\* the key of createInstance
instanceKey(given) == given.apiUrl \o "_" \o given.publicKey

\* new SecureStorefrontSDK(given)
newInstance(given) ==
  [given |-> given, http |-> sdkHttpConfig(given),
   authToken |-> Absent, cartToken |-> Absent]

\* what a caller of createInstance holds: the configuration it gave and the
\* instance it got, 0 when the constructor threw
Handle(given, ref) == [given |-> given, ref |-> ref]

\* SecureStorefrontSDK.createInstance (createStorefrontSDK)
createInstance(given) ==
  /\ Len(registry.handles) < MaxHandles
  /\ LET key == instanceKey(given)
         ref == Len(registry.objects) + 1
     IN IF key \in DOMAIN registry.instances
        THEN registry' =
               [registry EXCEPT
                  !.handles = Append(@, Handle(given, registry.instances[key]))]
        ELSE IF ~validateConfig(runtime, given)
        THEN registry' = [registry EXCEPT !.handles = Append(@, Handle(given, 0))]
        ELSE registry' =
               [instances |-> [k \in DOMAIN registry.instances \cup {key} |->
                                 IF k = key THEN ref ELSE registry.instances[k]],
                objects |-> Append(registry.objects, newInstance(given)),
                handles |-> Append(registry.handles, Handle(given, ref))]
  /\ UNCHANGED <<uvars, legacy, probe>>

\* setAuthToken called on the instance a caller holds
sdkSetAuthToken(h, token) ==
  /\ h \in DOMAIN registry.handles
  /\ registry.handles[h].ref # 0
  /\ registry' = [registry EXCEPT
                    !.objects[registry.handles[h].ref].authToken = storedToken(token)]
  /\ UNCHANGED <<uvars, legacy, probe>>

\* setCartToken called on the instance a caller holds
sdkSetCartToken(h, token) ==
  /\ h \in DOMAIN registry.handles
  /\ registry.handles[h].ref # 0
  /\ registry' = [registry EXCEPT
                    !.objects[registry.handles[h].ref].cartToken = storedToken(token)]
  /\ UNCHANGED <<uvars, legacy, probe>>

\* the token headers of a request made through the instance a caller holds
sdkTokenHeaders(reg, h) ==
  LET sdk == reg.objects[reg.handles[h].ref]
  IN tokenHeaders(sdk.authToken, sdk.cartToken)

\* one process on Node or in a browser, no instance created yet
InitRegistry ==
  /\ InitU
  /\ runtime.fetch /\ runtime.proc # runtime.win /\ ~runtime.cryptoJs
  /\ config.maxRetries = DefaultMaxRetries
  /\ config.secretKey = "sk"
  /\ InitL
  /\ probe = NoProbe /\ registry = NoRegistry

NextRegistry ==
  \/ \E given \in SdkGivens : createInstance(given)
  \/ \E h \in 1..MaxHandles, t \in {"null", "t1"} : sdkSetAuthToken(h, t)
  \/ \E h \in 1..MaxHandles, t \in {"null", "c1"} : sdkSetCartToken(h, t)

SpecS == InitRegistry /\ [][NextRegistry]_vars

SpecL == InitLegacy /\ [][NextL]_vars

---------------------------------------------------------------------------
(* Functions applied on their own: the arguments are drawn when the behavior
   starts, and one step applies the function to them *)

Probe(op, args) == [op |-> op, args |-> args, done |-> FALSE]

Applied(out) ==
  [op |-> probe.op, args |-> probe.args, done |-> TRUE, out |-> out]

\* The signature strings handed to verifySignature, described from the
\* signature generateSignature returns: that signature, one of its characters
\* replaced ('0', '1', 'A' or 'f'), its last character dropped, a character
\* added, and the empty string
Candidates ==
  { [kind |-> k, i |-> 0, c |-> 0] : k \in {"same", "truncate", "extend", "empty"} }
    \cup { [kind |-> "replace", i |-> i, c |-> c] : i \in 1..2, c \in {48, 49, 65, 102} }

candidateOf(g, cand) ==
  CASE cand.kind = "same" -> g
    [] cand.kind = "truncate" -> SubSeq(g, 1, Len(g) - 1)
    [] cand.kind = "extend" -> Append(g, 48)
    [] cand.kind = "empty" -> <<>>
    [] OTHER -> [g EXCEPT ![cand.i] = cand.c]

SignArgs ==
  { [timestamp |-> SignedTimestamps[t], method |-> SignedMethods[m],
     path |-> SignedPaths[p], body |-> SignedBodies[b]] :
      t \in DOMAIN SignedTimestamps, m \in DOMAIN SignedMethods,
      p \in DOMAIN SignedPaths, b \in DOMAIN SignedBodies }

VerifyProbes ==
  { Probe("verifySignature",
          [signed |-> a, candidate |-> c, tolerance |-> tol]) :
      a \in SignArgs, c \in Candidates, tol \in {<<>>, <<0>>, <<1>>} }

SignProbes == { Probe("sign", a) : a \in SignArgs }

DetectProbes == { Probe("detect", a) : a \in Ambients }

\* The data sanitized: objects of one and two fields, and those nested in
\* objects and arrays down to the third level
FlatData ==
  { Obj(<<Entry(k, Prim)>>) : k \in DataKeys }
    \cup { Obj(<<Entry(k1, Prim), Entry(k2, Prim)>>) :
             k1 \in {<<"s", "e", "s", "s", "i", "o", "n", "_", "t", "o", "k", "e", "n">>, <<"T", "o", "k", "e", "n">>},
             k2 \in {<<"m", "y", "_", "s", "e", "s", "s", "i", "o", "n", "_", "t", "o", "k", "e", "n">>, <<"p", "a", "s", "s", "w", "o", "r", "d">>} }
    \cup {Prim, Null}

NestedData ==
  { Obj(<<Entry(k, v)>>) : k \in DataKeys, v \in FlatData }
    \cup { Arr(<<v, Prim>>) : v \in FlatData }
    \cup { Obj(<<Entry(<<"n", "a", "m", "e">>, Arr(<<v>>))>>) : v \in FlatData }
    \cup { Obj(<<Entry(<<"n", "a", "m", "e">>, Obj(<<Entry(<<"n", "a", "m", "e">>, v)>>))>>) : v \in FlatData }

SanitizeProbes == { Probe("sanitizeClientData", d) : d \in FlatData \cup NestedData }

Probes == VerifyProbes \cup SignProbes \cup DetectProbes \cup SanitizeProbes

\* the runtimes of the clients, and Node with crypto-js installed
SignerRuntimes ==
  Runtimes \cup { Globals(TRUE, FALSE, FALSE, TRUE, TRUE, TRUE, TRUE, "none") }

\* a SecurityManager constructed in some runtime at some time of the clock,
\* and the arguments of one function application
InitProbes ==
  /\ runtime \in SignerRuntimes
  /\ config \in Configs
  /\ config.maxRetries = DefaultMaxRetries
  /\ validateConfig(runtime, config)
  /\ now \in {0, 301}
  /\ authToken = Absent /\ cartToken = Absent
  /\ lastSetAuth = "none" /\ lastSetCart = "none"
  /\ pc = "idle" /\ call = "none" /\ req = NoRequest
  /\ headers = NoHeaders /\ signed = NoSigned /\ outcome = NoOutcome
  /\ attempt = 0 /\ attempts = 0 /\ lastWait = 0 /\ waited = 0
  /\ wire = "unsent"
  /\ carried = NoHeaders
  /\ InitL
  /\ probe \in Probes
  /\ registry = NoRegistry

\* the signature a probe of verifySignature hands over
signatureOf(a, cand) ==
  LET g == generateSignature(a.timestamp, a.method, a.path, a.body)
  IN candidateOf(IF g.ok THEN digestHex(g.value) ELSE <<48, 48>>, cand)

applyVerifySignature ==
  /\ probe.op = "verifySignature"
  /\ ~probe.done
  /\ LET a == probe.args.signed
     IN probe' = Applied(verifySignature(signatureOf(a, probe.args.candidate),
                                         a.timestamp, a.method, a.path, a.body,
                                         probe.args.tolerance))
  /\ UNCHANGED <<uvars, legacy, registry>>

\* every signing path applied to the same arguments
applySign ==
  /\ probe.op = "sign"
  /\ ~probe.done
  /\ LET a == probe.args
     IN probe' = Applied(
          [generateSignature |->
             generateSignature(a.timestamp, a.method, a.path, a.body),
           generateSignatureSync |->
             generateSignatureSync(a.timestamp, a.method, a.path, a.body),
           generateBrowserSignature |->
             generateBrowserSignature(a.timestamp, a.method, a.path, a.body),
           legacy |->
             [ok |-> TRUE,
              value |-> legacyGenerateSignature(a.timestamp, a.method, a.path,
                                                a.body)]])
  /\ UNCHANGED <<uvars, legacy, registry>>

\* Environment.detect in a context with the ambient globals drawn
applyDetect ==
  /\ probe.op = "detect"
  /\ ~probe.done
  /\ probe' = Applied(detect(probeGlobals(probe.args)))
  /\ UNCHANGED <<uvars, legacy, registry>>

applySanitizeClientData ==
  /\ probe.op = "sanitizeClientData"
  /\ ~probe.done
  /\ probe' = Applied(sanitizeClientData(probe.args))
  /\ UNCHANGED <<uvars, legacy, registry>>

NextF ==
  \/ applyVerifySignature
  \/ applySign
  \/ applyDetect
  \/ applySanitizeClientData

SpecF == InitProbes /\ [][NextF]_vars

---------------------------------------------------------------------------
(* Properties of the retry loop *)

RetryableStatus(s) == s \in {408, 429} \/ (s >= 500 /\ s \notin {501, 505})

PermanentStatus(s) == (s >= 400 /\ s < 500 /\ s \notin {408, 429}) \/ s \in {501, 505}

\* the attempt under way reaches the transport and receives a response
Receives(o) == o.fault = "none" /\ makeRequest(req, signed.body, o).sent

RetryableResponses ==
  { o \in Outcomes : o.fault = "none" /\ RetryableStatus(o.status) }

PermanentResponses ==
  { o \in Outcomes : o.fault = "none" /\ PermanentStatus(o.status) }

\* the responses with a status in [lo, hi) and a body validateResponse accepts
ValidResponses(lo, hi) ==
  { o \in Outcomes : /\ o.fault = "none"
                     /\ o.status >= lo /\ o.status < hi
                     /\ validateResponse(o.body) }

\* C1: the number of transport attempts made for one request never exceeds
\* maxRetries + 1.
C1_AttemptsBounded == attempts <= config.maxRetries + 1

C1_Witness ==
  pc = "failed" /\ config.maxRetries = MaxRetriesBound /\ attempts = MaxRetriesBound + 1

\* C2: a request whose every attempt fails with a retryable status (408, 429,
\* or 500 and above other than 501 and 505) makes exactly maxRetries + 1
\* attempts and then raises a terminal error. The loop decides on the error
\* and the loop variable alone, so this is: each attempt that fails so is
\* followed by another one until maxRetries + 1 are made, and the last one
\* ends the request as failed.
C2_RetryableExhausts ==
  [][pc = "attempting" =>
       \A o \in RetryableResponses :
         (Receives(o) /\ Attempt(o)) =>
           IF attempts' < config.maxRetries + 1
           THEN pc' = "attempting"
           ELSE pc' = "failed" /\ attempts' = config.maxRetries + 1]_vars

\* C3: a request whose first attempt receives a permanent status (4xx other
\* than 408 and 429, 501, 505) makes exactly one attempt, whatever maxRetries
\* and the response body are, and raises the error without any delay.
C3_PermanentFailsAtOnce ==
  [][(pc = "attempting" /\ attempts = 0) =>
       \A o \in PermanentResponses :
         (Receives(o) /\ Attempt(o)) =>
           (pc' = "failed" /\ attempts' = 1 /\ waited' = 0)]_vars

\* the attempt ends the request as succeeded with the response it received
Succeeds(o) ==
  /\ pc' = "succeeded"
  /\ outcome'.ok
  /\ outcome'.status = o.status
  /\ outcome'.data = validatedResponse(o.body)
  /\ attempts' = attempts + 1
  /\ waited' = waited

\* C4 as stated: an attempt whose response has a status in [200,400) and a
\* body that passes validateResponse ends the request as succeeded, the
\* response is returned and no further attempt is made.
C4_SuccessBelow400 ==
  [][pc = "attempting" =>
       \A o \in ValidResponses(200, 400) :
         (Receives(o) /\ Attempt(o)) => Succeeds(o)]_vars

\* C4 amended: an attempt whose response has a status in [200,300) and a body
\* that passes validateResponse ends the request as succeeded, the response is
\* returned and no further attempt is made.
C4_SuccessBelow300 ==
  [][pc = "attempting" =>
       \A o \in ValidResponses(200, 300) :
         (Receives(o) /\ Attempt(o)) => Succeeds(o)]_vars

\* a request succeeded on its last allowed attempt with status 201
C4_Witness ==
  /\ pc = "succeeded"
  /\ outcome.status = 201
  /\ config.maxRetries = MaxRetriesBound
  /\ attempts = MaxRetriesBound + 1

---------------------------------------------------------------------------
(* Properties of the credential state *)

UnauthorizedResponses == { o \in LegacyOutcomes : o.fault = "none" /\ o.status = 401 }

\* C5: a call, through either client, that receives a response with status
\* 401 leaves the stored bearer token absent, and the error raised to the
\* caller has status 401.
C5_UnauthorizedClearsToken ==
  [][/\ pc = "attempting" =>
          \A o \in UnauthorizedResponses \cap Outcomes :
            (Receives(o) /\ Attempt(o)) =>
              /\ authToken' = Absent
              /\ pc' = "failed"
              /\ outcome'.error.status = 401
     /\ legacy.pc = "awaiting" =>
          \A o \in UnauthorizedResponses :
            legacyRespond(o) =>
              /\ legacy'.authToken = Absent
              /\ legacy'.pc = "failed"
              /\ legacy'.outcome.error.status = 401]_vars

\* C6: when a logout call completes, whether its request succeeded or failed,
\* the stored bearer token is absent and the headers built for later requests
\* hold no Authorization.
C6_LogoutClearsToken ==
  [][/\ (call = "logout" /\ pc \in {"succeeded", "failed"} /\ pc' = "idle") =>
          /\ authToken' = Absent
          /\ "Authorization" \notin DOMAIN tokenHeaders(authToken', cartToken')
     /\ (legacy.call = "logout" /\ legacy.pc \in {"succeeded", "failed"}
           /\ legacy'.pc = "idle") =>
          /\ legacy'.authToken = Absent
          /\ "Authorization" \notin
               DOMAIN legacyHeaders(0, <<>>, NoHeaders, legacy'.authToken,
                                    legacy'.cartToken)]_vars

\* the header k of the request being built is v when the last token set is a
\* non-empty one, and is missing when it is null or empty
CarriesLastSet(k, lastSet, value) ==
  IF lastSet \in {"null", ""}
  THEN k \notin DOMAIN headers'
  ELSE k \in DOMAIN headers' /\ headers'[k] = value

\* C7: once setAuthToken (setCartToken) has been called, every request whose
\* headers are built afterwards, and whose caller passes no header of that
\* name, carries Authorization: Bearer t (X-Cart-Token: c) exactly when the
\* argument of the most recent call was a non-empty token t (c); after null
\* the header is missing.
C7_TokensFollowSetters ==
  [][(pc = "idle" /\ pc' = "attempting") =>
       /\ (lastSetAuth # "none" /\ "Authorization" \notin DOMAIN req'.headers) =>
            CarriesLastSet("Authorization", lastSetAuth, "Bearer " \o lastSetAuth)
       /\ (lastSetCart # "none" /\ "X-Cart-Token" \notin DOMAIN req'.headers) =>
            CarriesLastSet("X-Cart-Token", lastSetCart, lastSetCart)]_vars

\* a request built after setAuthToken("t2") and setCartToken(null)
C7_Witness ==
  /\ pc = "attempting"
  /\ lastSetAuth = "t2"
  /\ lastSetCart = "null"
  /\ "Authorization" \in DOMAIN headers
  /\ headers["Authorization"] = "Bearer t2"
  /\ "X-Cart-Token" \notin DOMAIN headers

---------------------------------------------------------------------------
(* Properties of the request that is built *)

\* the headers of getAuthHeaders other than the bearer and cart headers
signingHeaders ==
  Merge([k \in {"X-Public-Key", "X-Timestamp", "X-Signature-Version"} |->
           CASE k = "X-Public-Key" -> config.publicKey
             [] k = "X-Timestamp" -> headers["X-Timestamp"]
             [] OTHER -> SignatureVersion],
        signatureHeaders(headers["X-Timestamp"], req.method, signed.path,
                         signed.body))

\* the headers the client sends whatever the request: the configured ones and
\* the User-Agent of Node
builtInDefaults ==
  IF info.isNode
  THEN Merge(config.headers, [k \in {"User-Agent"} |-> userAgent])
  ELSE config.headers

\* C8: every header of an outgoing request has the value of the
\* highest-precedence source that supplies it, in the order built-in defaults
\* < signing headers < bearer and cart headers < per-call headers; so a
\* per-call header is never overridden by the client.
C8_HeaderPrecedence ==
  /\ pc = "attempting" =>
       headers = Merge(Merge(Merge(builtInDefaults, signingHeaders),
                             tokenHeaders(authToken, cartToken)),
                       req.headers)
  /\ legacy.pc = "awaiting" =>
       \A k \in DOMAIN legacy.req.headers : legacy.headers[k] = legacy.req.headers[k]

\* the signature over the given path and body, for the request under way
SignatureOver(path, body) ==
  hmacSha256(Payload(SignatureVersion, headers["X-Timestamp"], req.method, path,
                     sha256(body)), config.secretKey)

\* C9: the path covered by the signature is the pathname plus the query
\* string of the request, in both clients.
C9_SignedPathHasQuery ==
  /\ pc = "attempting" =>
       /\ signed.path = pathnameAndSearch(req.url)
       /\ "X-Signature" \in DOMAIN headers =>
            headers["X-Signature"] = SignatureOver(pathnameAndSearch(req.url),
                                                   signed.body)
  /\ legacy.pc = "awaiting" =>
       /\ legacy.signed.path = pathnameAndSearch(legacy.req.url)
       /\ legacy.headers["X-Signature"] =
            legacyGenerateSignature(legacy.timestamp, legacy.req.method,
                                    pathnameAndSearch(legacy.req.url),
                                    legacy.signed.body)

\* C10: the body hashed into the signature of a request the universal client
\* sent is the body put on the wire, the empty string when none is sent.
C10_SignedBodyIsWireBody ==
  (pc \in {"attempting", "succeeded", "failed"} /\ wire # "unsent") =>
    /\ signed.body = wire
    /\ "X-Signature" \in DOMAIN headers =>
         headers["X-Signature"] = SignatureOver(signed.path, wire)

---------------------------------------------------------------------------
(* Properties of the signing headers *)

\* C11: the headers getAuthHeaders builds for a request hold X-Public-Key,
\* X-Timestamp and X-Signature-Version, and hold X-Signature exactly when a
\* secret key is configured, whatever the runtime is classified as.
C11_SignatureIffSecret ==
  pc = "attempting" =>
    LET h == getAuthHeaders(req.method, signed.path, signed.body)
    IN /\ {"X-Public-Key", "X-Timestamp", "X-Signature-Version"} \subseteq DOMAIN h
       /\ "X-Signature" \in DOMAIN h <=> config.secretKey # Absent

\* C12: on a server-like runtime with a secret, verifySignature applied to
\* the signature generateSignature returns for (t, m, p, b), and to t, m, p, b,
\* is true when |now - t| <= timestampTolerance and false when it is greater;
\* applied to a string that differs from that signature in a character or in
\* length it is false.
C12_VerifyRoundTrip ==
  (probe.op = "verifySignature" /\ probe.done) =>
    LET a == probe.args.signed
        g == generateSignature(a.timestamp, a.method, a.path, a.body)
        given == signatureOf(a, probe.args.candidate)
    IN (info.isServer /\ config.secretKey # Absent /\ g.ok) =>
         \A t \in ClockReadings :
           ToString(t) = a.timestamp =>
             LET within == abs(now - t) <= timestampTolerance(probe.args.tolerance)
             IN /\ probe.out.ok
                /\ probe.out.value = (within /\ given = digestHex(g.value))

\* the generated signature verified at the edge of the default tolerance
C12_Witness ==
  /\ probe.op = "verifySignature"
  /\ probe.done
  /\ probe.args.candidate.kind = "same"
  /\ probe.args.tolerance = <<>>
  /\ probe.args.signed.timestamp = "1"
  /\ now = 301
  /\ probe.out.value

\* the signature of the payload version, timestamp, upper-cased method, path
\* and SHA-256 of the body, in this order, under the given secret
ReferenceSignature(secret, a) ==
  <<"hmac", secret,
    <<"v1", a.timestamp, IF a.method = "get" THEN "GET" ELSE a.method, a.path,
      <<"sha256", a.body>>>>>>

\* C13: generateSignature, generateSignatureSync, generateBrowserSignature and
\* the legacy HttpClient.generateSignature, wherever they return, return the
\* same signature for the same secret, version, timestamp, method, path and
\* body: the HMAC-SHA256 under the secret of the five fields version,
\* timestamp, upper-cased method, path, hex SHA-256 of the body.
C13_SigningPathsAgree ==
  (probe.op = "sign" /\ probe.done) =>
    /\ \A f \in {"generateSignature", "generateSignatureSync",
                 "generateBrowserSignature"} :
         probe.out[f].ok =>
           probe.out[f].value = ReferenceSignature(config.secretKey, probe.args)
    /\ probe.out["legacy"].value =
         ReferenceSignature(LegacyConfig.secretKey, probe.args)

\* all four paths return, for a lower-case method and an empty body
C13_Witness ==
  /\ probe.op = "sign"
  /\ probe.done
  /\ probe.args.method = "get"
  /\ probe.args.body = ""
  /\ probe.out["generateSignature"].ok
  /\ probe.out["generateSignatureSync"].ok
  /\ probe.out["generateBrowserSignature"].ok
  /\ config.secretKey = LegacyConfig.secretKey

---------------------------------------------------------------------------
(* Properties of the runtime profile *)

\* C14: in every context that exposes a window with a document, and a
\* navigator, detect returns platform = "browser" and isServer = FALSE, whether or not a
\* process.versions.node descriptor or an importScripts function is present.
C14_BrowserFirst ==
  (probe.op = "detect" /\ probe.done /\ probe.args.window = "document"
     /\ probe.args.navigator) =>
    (probe.out.platform = "browser" /\ ~probe.out.isServer)

\* C15: the profile detect returns has at most one of isServer, isBrowser,
\* isWebWorker true, the true one matches platform, and with platform =
\* "unknown" all three are false.
C15_OneFlagMatchesPlatform ==
  (probe.op = "detect" /\ probe.done) =>
    LET o == probe.out
        flags == { f \in {"isServer", "isBrowser", "isWebWorker"} : o[f] }
    IN /\ Cardinality(flags) <= 1
       /\ o.isServer => o.platform = "node"
       /\ o.isBrowser => o.platform = "browser"
       /\ o.isWebWorker => o.platform = "webworker"
       /\ o.platform = "unknown" => flags = {}

---------------------------------------------------------------------------
(* Properties of the responses returned *)

\* the envelope of a successful body: the body itself, with success = true
\* added when it has none, if it is an object with a data property; else the
\* body wrapped as the data of a new envelope
NormalizedEnvelope(body) ==
  IF body.kind = "object" /\ body.hasData
  THEN [success |-> IF body.success = "absent" THEN "boolean" ELSE body.success,
        data |-> "own", message |-> body.message]
  ELSE [success |-> "boolean", data |-> "raw", message |-> <<>>]

\* C16: the legacy HttpClient.request returns, for every successful response,
\* the envelope of its body: an object with a data property unchanged but for
\* success = true added when it has no success field, any other body wrapped
\* as {success: true, data: body}; so every envelope returned has a boolean
\* success field.
C16_LegacyEnvelope ==
  [][legacy.pc = "awaiting" =>
       \A o \in LegacyOutcomes :
         (legacyRespond(o) /\ legacy'.pc = "succeeded") =>
           /\ legacy'.outcome.envelope = NormalizedEnvelope(o.body)
           /\ legacy'.outcome.envelope.success = "boolean"]_vars

\* a field is kept when its lower-cased key is an allowlisted name, or holds
\* no denylisted substring
KeptByRule(k) ==
  LET lower == toLowerCase(k)
  IN \/ lower \in { allowedTokens[i] : i \in DOMAIN allowedTokens }
     \/ ~\E i \in DOMAIN sensitiveFields : includes(lower, sensitiveFields[i])

\* the value with the rule applied to the fields of its objects at every depth
RECURSIVE Stripped(_)
Stripped(v) ==
  IF v.t = "obj"
  THEN LET kept == SelectSeq(v.kids, LAMBDA e : KeptByRule(e.k))
       IN Obj([i \in DOMAIN kept |-> Entry(kept[i].k, Stripped(kept[i].v))])
  ELSE IF v.t = "arr"
  THEN Arr([i \in DOMAIN v.kids |-> Stripped(v.kids[i].v)])
  ELSE v

RECURSIVE HoldsDropped(_)
HoldsDropped(v) ==
  \E i \in DOMAIN v.kids :
    \/ v.t = "obj" /\ ~KeptByRule(v.kids[i].k)
    \/ HoldsDropped(v.kids[i].v)

\* C18: no response UniversalHttpClient.request returns holds, at any depth
\* of its body, a field whose key is denylisted and not allowlisted, whether
\* the body is an envelope {data: ...} or has its fields at the top level.
C18_NoSensitiveFieldReturned ==
  pc = "succeeded" =>
    /\ ~HoldsDropped(outcome.data.fields)
    /\ ~HoldsDropped(outcome.data.data)

\* C19: every error UniversalHttpClient.request raises to its caller is a
\* plain object with a message, a name and, when a response came with it, its
\* status, and is never a native Error instance, whatever made the request
\* fail.
C19_ErrorsArePlain ==
  pc = "failed" =>
    /\ ~outcome.error.native
    /\ outcome.error.name # ""
    /\ outcome.error.hasResponse => outcome.error.status # 0

---------------------------------------------------------------------------
(* Properties of the SDK configuration *)

\* C20: a client created with neither maxRetries nor retryDelay in its
\* configuration retries with maxRetries = 2 and a base delay of 500 ms, so no
\* request of it is attempted more than 3 times.
C20_SdkDefaults ==
  /\ config.maxRetries = DefaultMaxRetries
  /\ config.retryDelay = DefaultRetryDelay
  /\ attempts <= DefaultMaxRetries + 1

---------------------------------------------------------------------------
(* Properties of the waits between attempts *)

\* the milliseconds a Retry-After value converts to
retryAfterMs(hint) == IF hint.form = "seconds" THEN hint.n * 1000 ELSE hint.n

\* 429 responses whose Retry-After header converts to a number of milliseconds
RateLimitHints ==
  { o \in Outcomes : /\ o.fault = "none"
                     /\ o.status = 429
                     /\ o.retryAfter.form \in {"seconds", "date"} }

\* C21: when the attempt numbered n is answered 429 with a Retry-After that
\* converts to d milliseconds and another attempt follows, the wait before it
\* is d whenever 0 <= d <= 60000, both bounds included, and
\* retryDelay * 2^n otherwise.
C21_RetryAfterHonoured ==
  [][pc = "attempting" =>
       \A o \in RateLimitHints :
         (Receives(o) /\ Attempt(o) /\ pc' = "attempting") =>
           lastWait' = IF /\ 0 <= retryAfterMs(o.retryAfter)
                          /\ retryAfterMs(o.retryAfter) <= MaxRetryAfterMs
                       THEN retryAfterMs(o.retryAfter)
                       ELSE config.retryDelay * (2 ^ attempt)]_vars

\* the outcomes that carry no Retry-After header
NoHintOutcomes == { o \in Outcomes : o.retryAfter.form = "absent" }

\* C22: an attempt numbered n that fails with no rate-limit hint is followed
\* by another attempt only when n < maxRetries, after a wait of exactly
\* retryDelay * 2^n; when the request ends with that attempt, being the
\* final one or its failure not retryable, nothing is waited.
C22_ExponentialBackoff ==
  [][pc = "attempting" =>
       \A o \in NoHintOutcomes :
         Attempt(o) =>
           IF pc' = "attempting"
           THEN /\ attempt < config.maxRetries
                /\ attempt' = attempt + 1
                /\ waited' = waited + 1
                /\ lastWait' = config.retryDelay * (2 ^ attempt)
           ELSE /\ waited' = waited
                /\ lastWait' = lastWait]_vars

\* two waits made, the second twice the first
C22_Witness ==
  /\ pc = "attempting"
  /\ attempt = 2
  /\ waited = 2
  /\ lastWait = 2 * config.retryDelay

---------------------------------------------------------------------------
(* Properties of the cart token *)

\* the text of the cart_token of the cart in the body, "" when it has none
CartTokenOf(body) == 
  LET token == IF responseDataData(body).t = "obj"
               THEN field(responseDataData(body), cart_token) ELSE Undefined
  IN IF token.t = "string" THEN textOf(token) ELSE ""

---------------------------------------------------------------------------
(* Properties of the failures that end a request *)

\* responses with a success status whose body validateResponse rejects
InvalidSuccesses ==
  { o \in Outcomes : /\ o.fault = "none"
                     /\ ResponseOk(o.status)
                     /\ o.body.kind \notin {"malformed", "stalled"}
                     /\ ~validateResponse(o.body) }

\* C24: an attempt answered with a success status and a body that fails
\* validateResponse (not an object, or success present and not a boolean) ends
\* the request: it fails with that attempt and is not sent again.
C24_InvalidBodyIsFinal ==
  [][pc = "attempting" =>
       \A o \in InvalidSuccesses :
         (Receives(o) /\ Attempt(o)) => pc' = "failed"]_vars

\* C25: on a runtime with no transport, neither fetch nor Node, a request
\* fails on its first attempt: one attempt is made and nothing is waited.
C25_NoTransportFailsAtOnce ==
  (~hasFetch /\ ~info.isNode) =>
    /\ attempts <= 1
    /\ waited = 0
    /\ pc # "succeeded"

\* transport faults whose message names ECONNREFUSED, ENOTFOUND or CERT_
ConnectionFaults ==
  { o \in Faults : \E w \in {"ECONNREFUSED", "ENOTFOUND", "CERT_"} :
                     Includes(o.message, w) }

\* C26: an attempt that fails with a transport fault whose message contains
\* ECONNREFUSED, ENOTFOUND or CERT_ is never retried: the request fails with
\* that attempt and nothing is waited after it.
C26_ConnectionFaultIsFinal ==
  [][pc = "attempting" =>
       \A o \in ConnectionFaults :
         (makeRequest(req, signed.body, o).sent /\ Attempt(o)) =>
           /\ pc' = "failed"
           /\ attempts' = attempts + 1
           /\ waited' = waited]_vars

\* a client allowed two retries has failed on a refused connection with its
\* first attempt
C26_Witness ==
  /\ pc = "failed"
  /\ config.maxRetries = 2
  /\ attempts = 1
  /\ outcome.error.status = 0
  /\ Includes(outcome.error.message, "ECONNREFUSED")

\* what an attempt meets when the server is slower than the timeout: no
\* response headers in time (the timer aborts fetch), or headers in time and a
\* body that never ends
SlowOutcomes ==
  { o \in Outcomes : o.fault = "AbortError" \/ o.body.kind = "stalled" }

\* C27: an attempt that lasts longer than its timeout is ended by it: if
\* fewer than maxRetries retries have been made another attempt follows,
\* otherwise the request fails with that attempt.
C27_TimeoutEndsAttempt ==
  [][pc = "attempting" =>
       \A o \in SlowOutcomes :
         (makeRequest(req, signed.body, o).sent /\ Attempt(o)) =>
           IF attempt < config.maxRetries
           THEN pc' = "attempting" /\ attempt' = attempt + 1
           ELSE pc' = "failed"]_vars

---------------------------------------------------------------------------
(* Properties of requests with setters called in flight *)

\* C28: while a request is under way the header set merged before its first
\* attempt does not change, whatever setAuthToken or setCartToken is called
\* and however long the waits are, and every attempt put on the wire carries
\* exactly that set, Authorization, X-Cart-Token, X-Timestamp and X-Signature
\* included.
C28_HeadersFixedPerRequest ==
  [][pc = "attempting" =>
       /\ headers' = headers
       /\ (attempts' # attempts /\ carried' # NoHeaders) => carried' = headers]_vars

\* a second attempt has carried Bearer t1 and the time stamp 0 although the
\* stored token is t2 by now and the clock has moved on
C28_Witness ==
  /\ pc = "attempting"
  /\ attempts = 2
  /\ authToken = "t2"
  /\ now = 1
  /\ "Authorization" \in DOMAIN carried
  /\ carried["Authorization"] = "Bearer t1"
  /\ carried["X-Timestamp"] = 0
  /\ "X-Signature" \in DOMAIN carried
  /\ "X-Cart-Token" \notin DOMAIN carried
  /\ cartToken = "c1"

---------------------------------------------------------------------------
(* Properties of createInstance *)

\* two configurations name the same store
SameStore(a, b) == a.apiUrl = b.apiUrl /\ a.publicKey = b.publicKey

\* C29: a call of createInstance (createStorefrontSDK) whose apiUrl and
\* publicKey are those of an earlier call that returned an instance returns
\* that same instance and leaves every instance as it is, whatever secretKey,
\* timeout, maxRetries and retryDelay it gives; and at any time the bearer
\* and cart token headers of requests made through two handles of the same
\* apiUrl and publicKey are the same.
C29_OneInstancePerStore ==
  [][LET old == registry.handles
         new == registry'.handles
     IN /\ Len(new) = Len(old) + 1 =>
             \A i \in DOMAIN old :
               (old[i].ref # 0 /\ SameStore(old[i].given, new[Len(new)].given)) =>
                 /\ new[Len(new)].ref = old[i].ref
                 /\ registry'.objects = registry.objects
        /\ \A i, j \in DOMAIN new :
             (new[i].ref # 0 /\ new[j].ref # 0
                /\ SameStore(new[i].given, new[j].given)) =>
               sdkTokenHeaders(registry', i) = sdkTokenHeaders(registry', j)]_vars

\* two callers of one store, the second with another secret and maxRetries,
\* hold the one instance built from the first configuration, and the token
\* set on it is sent through both
C29_Witness ==
  /\ Len(registry.handles) >= 2
  /\ registry.handles[1].ref # 0
  /\ registry.handles[2].ref = registry.handles[1].ref
  /\ registry.handles[1].given.secretKey = "sk"
  /\ registry.handles[2].given.secretKey = "sk2"
  /\ registry.objects[registry.handles[2].ref].given.secretKey = "sk"
  /\ registry.objects[registry.handles[2].ref].http.maxRetries = SdkDefaultMaxRetries
  /\ sdkTokenHeaders(registry, 2) = tokenHeaders("t1", "c1")

---------------------------------------------------------------------------
(* Properties of the legacy client with setters called in flight *)

\* the request under way was sent with the bearer token that is stored now
SentWithStoredToken ==
  /\ "Authorization" \in DOMAIN legacy.headers
  /\ legacy.headers["Authorization"] = Bearer(legacy.authToken)

\* C30: when the legacy client processes a 401 response, a bearer token that
\* is stored and is not the one the rejected request was sent with, having
\* been installed by setAuthToken after the request was dispatched, is still
\* stored afterwards.
C30_LateTokenSurvives401 ==
  [][legacy.pc = "awaiting" =>
       \A o \in UnauthorizedResponses :
         (legacyRespond(o) /\ legacy.authToken \notin {Absent, ""}
            /\ ~SentWithStoredToken) =>
           legacy'.authToken = legacy.authToken]_vars

====
